---- MODULE Spec2Model ----
(***************************************************************************)
(* PDF batch transcription pipeline (rkeller370/pdftest).                  *)
(*                                                                         *)
(* The repository holds successive revisions of one script; the model      *)
(* carries the revision as the state variable rev and follows, revision by *)
(* revision, the code of                                                   *)
(*     src/index.js          ("index.js")                                  *)
(*     src/unnamed/part_000  ("part_000")                                  *)
(* src/unnamed/part_001 is the code of src/index.js with comments added;   *)
(* it differs only in the filter of the directory listing.                 *)
(*                                                                         *)
(* Text is a sequence of one-character strings.  Numbers that the code     *)
(* computes in floating point with halves (medians, scores) are kept       *)
(* doubled, so that every comparison is an exact integer comparison.       *)
(***************************************************************************)
EXTENDS Integers, Sequences, FiniteSets, TLC

(***************************************************************************)
(* Bounds of the model.                                                    *)
(***************************************************************************)
\* Largest worker count (CONCURRENCY) explored.
MaxWorkers == 2
\* Polls of the OCR operation explored per document.
MaxPolls == 2
\* Pages a backend returns at most in the single-document specification.
MaxPages == 2
\* Largest page number the OCR backend reports.
MaxPageNo == 3

(***************************************************************************)
(* Characters and strings.                                                 *)
(***************************************************************************)
LowerSeq ==
  << "a","b","c","d","e","f","g","h","i","j","k","l","m",
     "n","o","p","q","r","s","t","u","v","w","x","y","z" >>

UpperSeq ==
  << "A","B","C","D","E","F","G","H","I","J","K","L","M",
     "N","O","P","Q","R","S","T","U","V","W","X","Y","Z" >>

Range(s) == { s[i] : i \in DOMAIN s }

IsLower(c) == c \in Range(LowerSeq)
IsUpper(c) == c \in Range(UpperSeq)
IsDigit(c) == c \in {"0","1","2","3","4","5","6","7","8","9"}
\* \s of a JavaScript regular expression, and what String.prototype.trim strips
IsSpace(c) == c \in {" ", "\t", "\n", "\r", "\f"}
\* \w of a JavaScript regular expression
IsWordChar(c) == IsLower(c) \/ IsUpper(c) \/ IsDigit(c) \/ c = "_"
\* a line terminator, where ^ and $ of a multiline regular expression match
IsLineTerm(c) == c \in {"\n", "\r"}

\* String.prototype.toUpperCase / toLowerCase, one character
UpChar(c) ==
  IF IsLower(c) THEN UpperSeq[CHOOSE i \in DOMAIN LowerSeq : LowerSeq[i] = c] ELSE c
LowChar(c) ==
  IF IsUpper(c) THEN LowerSeq[CHOOSE i \in DOMAIN UpperSeq : UpperSeq[i] = c] ELSE c
toUpperCase(s) == [i \in DOMAIN s |-> UpChar(s[i])]
toLowerCase(s) == [i \in DOMAIN s |-> LowChar(s[i])]

\* String.prototype.repeat
Rep(c, n) == [i \in 1..n |-> c]


\* s from position i on
Tail_(s, i) == SubSeq(s, i, Len(s))

\* pre occurs in s at position i
OccursAt(s, i, pre) ==
  /\ i >= 1
  /\ i + Len(pre) - 1 <= Len(s)
  /\ \A k \in 1..Len(pre) : s[i + k - 1] = pre[k]

startsWith(s, pre) == OccursAt(s, 1, pre)
endsWith(s, suf) == OccursAt(s, Len(s) - Len(suf) + 1, suf)

\* String.prototype.trim
trim(s) ==
  IF \A i \in DOMAIN s : IsSpace(s[i]) THEN << >>
  ELSE SubSeq(s,
         CHOOSE i \in DOMAIN s :
           ~IsSpace(s[i]) /\ \A j \in 1..(i - 1) : IsSpace(s[j]),
         CHOOSE i \in DOMAIN s :
           ~IsSpace(s[i]) /\ \A j \in (i + 1)..Len(s) : IsSpace(s[j]))

\* the characters of s at the positions that satisfy Keep(_), in order
keepAt(s, Keep(_)) ==
  LET tagged == [ i \in DOMAIN s |-> << i, s[i] >> ]
      KeepTagged(p) == Keep(p[1])
      kept == SelectSeq(tagged, KeepTagged)
  IN  [ j \in DOMAIN kept |-> kept[j][2] ]

\* s with every character of class drop removed: replace(/[drop]/g, '')
Without(s, drop) ==
  LET Kept(c) == c \notin drop
  IN  SelectSeq(s, Kept)

\* String.prototype.split on a one-character separator
RECURSIVE split(_, _)
split(s, sep) ==
  LET at == { i \in DOMAIN s : s[i] = sep }
  IN  IF at = {} THEN << s >>
      ELSE LET i == CHOOSE i \in at : \A j \in at : i <= j
           IN  << SubSeq(s, 1, i - 1) >> \o split(Tail_(s, i + 1), sep)

\* Array.prototype.join
RECURSIVE join(_, _)
join(parts, sep) ==
  IF parts = << >> THEN << >>
  ELSE IF Len(parts) = 1 THEN parts[1]
       ELSE parts[1] \o sep \o join(Tail(parts), sep)

\* rawText.split(/\r?\n/): a carriage return right before the newline belongs
\* to the separator
splitLines(s) ==
  LET parts == split(s, "\n")
  IN  [ i \in DOMAIN parts |->
          IF i < Len(parts) /\ parts[i] # << >> /\ parts[i][Len(parts[i])] = "\r"
          THEN SubSeq(parts[i], 1, Len(parts[i]) - 1)
          ELSE parts[i] ]

\* line.split(/\s+/): the pieces between maximal runs of whitespace
RECURSIVE splitWs(_)
splitWs(s) ==
  LET at == { i \in DOMAIN s : IsSpace(s[i]) }
  IN  IF at = {} THEN << s >>
      ELSE LET i == CHOOSE i \in at : \A j \in at : i <= j
               rest == { j \in i..Len(s) : ~IsSpace(s[j]) }
               nxt == IF rest = {} THEN Len(s) + 1
                      ELSE CHOOSE j \in rest : \A k \in rest : j <= k
           IN  << SubSeq(s, 1, i - 1) >> \o splitWs(Tail_(s, nxt))

\* arr.sort((a, b) => a - b) on numbers
RECURSIVE insertSorted(_, _)
insertSorted(sorted, x) ==
  IF sorted = << >> THEN << x >>
  ELSE IF x <= Head(sorted) THEN << x >> \o sorted
       ELSE << Head(sorted) >> \o insertSorted(Tail(sorted), x)

RECURSIVE sortNumbers(_)
sortNumbers(arr) ==
  IF arr = << >> THEN << >>
  ELSE insertSorted(sortNumbers(Tail(arr)), Head(arr))

\* the position after the longest run of characters of class In(_) that
\* starts at position i (i itself when there is none)
runEnd(s, i, In(_)) ==
  IF i < 1 \/ i > Len(s) THEN i
  ELSE IF \A j \in i..Len(s) : In(s[j]) THEN Len(s) + 1
       ELSE CHOOSE j \in i..Len(s) : ~In(s[j]) /\ \A k \in i..(j - 1) : In(s[k])

\* the first position from i on where the pattern Match(_) matches, or 0
nextMatch(s, i, Match(_)) ==
  IF \A j \in i..Len(s) : Match(j) = 0 THEN 0
  ELSE CHOOSE j \in i..Len(s) : Match(j) > 0 /\ \A k \in i..(j - 1) : Match(k) = 0

\* characters that stand for the non-ASCII glyphs of the list markers
BULLET == "U+2022"
WHITE_CIRCLE == "U+25CB"
SECTION_SIGN == "U+00A7"

(***************************************************************************)
(* index.js: TextStructureAnalyzer                                         *)
(***************************************************************************)
\* this.lines of the constructor
analyzerLines(rawText) ==
  LET trimmed == [ i \in DOMAIN splitLines(rawText) |-> trim(splitLines(rawText)[i]) ]
      NonEmpty(l) == l # << >>
  IN  SelectSeq(trimmed, NonEmpty)

\* median(arr), doubled; -1 stands for the NaN of an empty array, with which
\* every comparison is false
median2(arr) ==
  LET sorted == sortNumbers(arr)
      mid == Len(sorted) \div 2          \* zero-based index
  IN  IF sorted = << >> THEN -1
      ELSE IF Len(sorted) % 2 = 1 THEN 2 * sorted[mid + 1]
           ELSE sorted[mid] + sorted[mid + 1]

\* stats.medianLength, doubled (the other statistics are never read)
analyzeDocument(lines) == median2([ i \in DOMAIN lines |-> Len(lines[i]) ])

endsWithPunctuation(line) ==
  line # << >> /\ line[Len(line)] \in {".", "!", "?", ";"}

startsWithCapital(line) ==
  line # << >> /\ (IsUpper(line[1]) \/ line[1] \in {"\"", "'", "(", "["})

\* the position after the marker (\d+\.|\d+\)) at the start of line, else 0
numberedMarkerEnd(line, closers) ==
  LET d == runEnd(line, 1, IsDigit)
  IN  IF d > 1 /\ d <= Len(line) /\ line[d] \in closers THEN d + 1 ELSE 0

\* /^(\d+\.|\d+\)|\-|\*|•)\s+[A-Z]/
numberedOrBulletedHeader(line) ==
  LET n == numberedMarkerEnd(line, {".", ")"})
      m == IF n > 0 THEN n
           ELSE IF line # << >> /\ line[1] \in {"-", "*", BULLET} THEN 2 ELSE 0
      e == runEnd(line, m, IsSpace)
  IN  m > 0 /\ e > m /\ e <= Len(line) /\ IsUpper(line[e])

\* /^\d+\.\s+[A-Z]/
numberDotHeader(line) ==
  LET m == numberedMarkerEnd(line, {"."})
      e == runEnd(line, m, IsSpace)
  IN  m > 0 /\ e > m /\ e <= Len(line) /\ IsUpper(line[e])

IsRoman(c) == c \in {"I", "V", "X", "L", "C", "D", "M"}

\* /^[IVXLCDM]+\.\s+[A-Z]/
romanDotHeader(line) ==
  LET r == runEnd(line, 1, IsRoman)
      m == IF r > 1 /\ r <= Len(line) /\ line[r] = "." THEN r + 1 ELSE 0
      e == runEnd(line, m, IsSpace)
  IN  m > 0 /\ e > m /\ e <= Len(line) /\ IsUpper(line[e])

\* the words of the two keyword patterns of headerPatterns
headerKeywords ==
  { << "c","h","a","p","t","e","r" >>,
    << "s","e","c","t","i","o","n" >>,
    << "p","a","r","t" >>,
    << "a","p","p","e","n","d","i","x" >>,
    << "i","n","t","r","o","d","u","c","t","i","o","n" >>,
    << "c","o","n","c","l","u","s","i","o","n" >>,
    << "a","b","s","t","r","a","c","t" >>,
    << "s","u","m","m","a","r","y" >>,
    << "o","v","e","r","v","i","e","w" >>,
    << "b","a","c","k","g","r","o","u","n","d" >>,
    << "t","a","b","l","e"," ","o","f"," ","c","o","n","t","e","n","t","s" >>,
    << "r","e","f","e","r","e","n","c","e","s" >>,
    << "b","i","b","l","i","o","g","r","a","p","h","y" >>,
    << "a","c","k","n","o","w","l","e","d","g","m","e","n","t","s" >> }

\* headerPatterns.some(p => p.test(line))
matchesHeaderPattern(line) ==
  \/ \E k \in headerKeywords : startsWith(toLowerCase(line), k)
  \/ numberDotHeader(line)
  \/ romanDotHeader(line)

\* line === line.toUpperCase() && /[A-Z]/.test(line)
isUpperCase(line) == line = toUpperCase(line) /\ \E i \in DOMAIN line : IsUpper(line[i])

\* if (isAllCaps) factors.push(2), doubled: what the all-caps factor adds
allCapsFactor2(line) ==
  IF isUpperCase(line) /\ Len(splitWs(line)) > 1 /\ Len(splitWs(line)) < 12
  THEN 4 ELSE 0

\* isHeaderLine(line, index) of an analyzer with the given lines; index is
\* the zero-based index of the code (-1 from isContinuation).  The factors
\* and the threshold are doubled: 1 -> 2, 1.5 -> 3, 0.5 -> 1, 2.5 -> 5.
isHeaderLine(lines, line, index) ==
  LET med2 == analyzeDocument(lines)
      len == Len(line)
      \* line.length < Math.min(medianLength * 0.6, 80)
      short == 20 * len < 6 * med2 /\ len < 80
      words == splitWs(line)
      capitalizedWords ==
        { i \in DOMAIN words :
            words[i] # << >> /\ IsUpper(words[i][1]) /\ Len(words[i]) > 2 }
      isTitleCase == /\ 10 * Cardinality(capitalizedWords) >= 7 * Len(words)
                     /\ Len(words) >= 2
                     /\ Len(words) < 15
      prevLine == IF index > 0 THEN lines[index] ELSE << >>
      nextLine == IF index < Len(lines) - 1 THEN lines[index + 2] ELSE << >>
      score2 ==
          (IF short THEN 2 ELSE 0)
        + allCapsFactor2(line)
        + (IF isTitleCase /\ ~endsWithPunctuation(line) THEN 3 ELSE 0)
        + (IF ~endsWithPunctuation(line) /\ len < 100 THEN 2 ELSE 0)
        + (IF line # << >> /\ line[len] = ":" THEN 4 ELSE 0)
        + (IF numberedOrBulletedHeader(line) /\ len < 100 THEN 3 ELSE 0)
        + (IF 2 * Len(prevLine) > 3 * len \/ 2 * Len(nextLine) > 3 * len
           THEN 1 ELSE 0)
        + (IF matchesHeaderPattern(line) THEN 4 ELSE 0)
  IN  score2 >= 5

\* /^(\d+\.|\d+\)|\-|\*|•|○|§|[a-z]\.|[A-Z]\.)\s+/
isListItem(line) ==
  LET n == numberedMarkerEnd(line, {".", ")"})
      m == IF n > 0 THEN n
           ELSE IF line # << >> /\ line[1] \in {"-", "*", BULLET, WHITE_CIRCLE, SECTION_SIGN}
                THEN 2
           ELSE IF Len(line) >= 2 /\ (IsLower(line[1]) \/ IsUpper(line[1])) /\ line[2] = "."
                THEN 3
           ELSE 0
  IN  m > 0 /\ runEnd(line, m, IsSpace) > m

isContinuation(lines, line) ==
  /\ ~isListItem(line)
  /\ line # << >> /\ IsLower(line[1])
  /\ ~isHeaderLine(lines, line, -1)


(***************************************************************************)
(* index.js: cleanNaturalText                                              *)
(***************************************************************************)
\* { type: 'paragraph', lines: [] }; level is 0 for a block that has none
newBlock(type) == [type |-> type, lines |-> << >>, level |-> 0]

\* an open list block stays open when a plain line comes
keepList(st) == st

\* if (currentBlock.type === 'list' && currentBlock.lines.length > 0):
\* the list block is pushed and a paragraph block opened
closeList(st) ==
  IF st.currentBlock.type = "list" /\ Len(st.currentBlock.lines) > 0
  THEN [ blocks |-> Append(st.blocks, st.currentBlock),
         currentBlock |-> newBlock("paragraph") ]
  ELSE st

\* one iteration of the loop over the lines: the body for lines[i]
\* (i zero-based), from and to the pair of blocks and currentBlock
passStep(lines, i, st) ==
  LET line == lines[i + 1]
      blocks == st.blocks
      currentBlock == st.currentBlock
  IN  IF isHeaderLine(lines, line, i)
      THEN [ blocks |->
               (IF Len(currentBlock.lines) > 0 THEN Append(blocks, currentBlock)
                ELSE blocks)
               \o << [ type |-> "header", lines |-> << line >>,
                       level |-> IF Len(line) < 30 THEN 1
                                 ELSE IF Len(line) < 60 THEN 2 ELSE 3 ] >>,
             currentBlock |-> newBlock("paragraph") ]
      ELSE IF isListItem(line)
      THEN LET flush == currentBlock.type = "paragraph" /\ Len(currentBlock.lines) > 0
               b1 == IF flush THEN Append(blocks, currentBlock) ELSE blocks
               c1 == IF flush THEN newBlock("list") ELSE currentBlock
               c2 == IF c1.type # "list" THEN newBlock("list") ELSE c1
           IN  [ blocks |-> b1,
                 currentBlock |-> [c2 EXCEPT !.lines = Append(@, line)] ]
      ELSE LET b1 == closeList(st).blocks
               c1 == closeList(st).currentBlock
               n == Len(c1.lines)
               lastLine == c1.lines[n]
               shouldMerge ==
                 \/ ~endsWithPunctuation(lastLine)
                 \/ isContinuation(lines, line)
                 \/ (Len(lastLine) < 80 /\ ~startsWithCapital(line))
           IN  [ blocks |-> b1,
                 currentBlock |->
                   IF n > 0 /\ shouldMerge
                   THEN [c1 EXCEPT !.lines[n] = lastLine \o << " " >> \o line]
                   ELSE [c1 EXCEPT !.lines = Append(@, line)] ]

RECURSIVE passFrom(_, _, _)
passFrom(lines, i, st) ==
  IF i >= Len(lines) THEN st ELSE passFrom(lines, i + 1, passStep(lines, i, st))

\* the loop's blocks without the push of the last block
withoutLast(st) == st.blocks

\* the push of the last block without the test of its length
pushAlways(st) == Append(st.blocks, st.currentBlock)

\* if (currentBlock.lines.length > 0) blocks.push(currentBlock)
pushLast(st) ==
  IF Len(st.currentBlock.lines) > 0 THEN Append(st.blocks, st.currentBlock)
  ELSE st.blocks

\* the blocks after the loop and the push of the last block
assembleBlocks(lines) ==
  pushLast(passFrom(lines, 0, [blocks |-> << >>, currentBlock |-> newBlock("paragraph")]))

renderBlock(block) ==
  IF block.type = "header"
  THEN << "\n" >> \o Rep("#", block.level) \o << " " >> \o toUpperCase(block.lines[1])
       \o << " " >> \o Rep("#", block.level) \o << "\n" >>
  ELSE IF block.type = "list" THEN join(block.lines, << "\n" >>)
  ELSE join(block.lines, << " " >>)

IsNewline(c) == c = "\n"

\* replace(/\n{3,}/g, '\n\n'): of a run of newlines the first two stay
collapseNewlines(s) ==
  LET Kept(i) == ~(s[i] = "\n" /\ i >= 3 /\ s[i - 1] = "\n" /\ s[i - 2] = "\n")
  IN  keepAt(s, Kept)

\* blocks.map(...).join("\n\n").replace(/\n{3,}/g, "\n\n").trim()
renderBlocks(blocks) ==
  trim(collapseNewlines(
    join([ i \in DOMAIN blocks |-> renderBlock(blocks[i]) ], << "\n", "\n" >>)))

cleanNaturalText(rawText) ==
  IF rawText = << >> THEN << >>
  ELSE renderBlocks(assembleBlocks(analyzerLines(rawText)))


(***************************************************************************)
(* The artifact patterns of cleanPages and applyArtifactCleanup.  A match  *)
(* operator gives the position after the match that starts at position i,  *)
(* or 0 when the pattern does not match there.                             *)
(***************************************************************************)
\* ^ and $ of a regular expression with the m flag
AtLineStart(s, i) == i = 1 \/ (i > 1 /\ i <= Len(s) + 1 /\ IsLineTerm(s[i - 1]))
AtLineEnd(s, i) == i = Len(s) + 1 \/ (i >= 1 /\ i <= Len(s) /\ IsLineTerm(s[i]))

\* the largest position of lo..hi that is a line end, or 0
lastLineEnd(s, lo, hi) ==
  LET ends == { k \in lo..hi : AtLineEnd(s, k) }
  IN  IF ends = {} THEN 0 ELSE CHOOSE k \in ends : \A j \in ends : k >= j

\* /Page \d+ of \d+/i
matchPageOf(s, i) ==
  LET d1 == runEnd(s, i + 5, IsDigit)
      d2 == runEnd(s, d1 + 4, IsDigit)
  IN  IF /\ OccursAt(toLowerCase(s), i, << "p", "a", "g", "e", " " >>)
         /\ d1 > i + 5
         /\ OccursAt(toLowerCase(s), d1, << " ", "o", "f", " " >>)
         /\ d2 > d1 + 4
      THEN d2 ELSE 0

\* /^\d+\s*$/m
matchLoneNumber(s, i) ==
  LET d == runEnd(s, i, IsDigit)
  IN  IF AtLineStart(s, i) /\ d > i
      THEN lastLineEnd(s, d, runEnd(s, d, IsSpace))
      ELSE 0

IsBlankish(c) == IsSpace(c) \/ c \in {"-", "_"}

\* /^[\s\-_]+$/m
matchBlankLine(s, i) ==
  LET e == runEnd(s, i, IsBlankish)
  IN  IF AtLineStart(s, i) /\ e > i THEN lastLineEnd(s, i + 1, e) ELSE 0

\* /^\d+$/m
matchBareNumber(s, i) ==
  LET d == runEnd(s, i, IsDigit)
  IN  IF AtLineStart(s, i) /\ d > i /\ AtLineEnd(s, d) THEN d ELSE 0

\* /(\w)-\s*\n(\w)/: the whitespace run after the hyphen has to end in a
\* newline that a word character follows
matchHyphenBreak(s, i) ==
  LET w == runEnd(s, i + 2, IsSpace)
  IN  IF /\ i + 1 <= Len(s) /\ IsWordChar(s[i]) /\ s[i + 1] = "-"
         /\ w > i + 2 /\ s[w - 1] = "\n"
         /\ w <= Len(s) /\ IsWordChar(s[w])
      THEN w + 1 ELSE 0

IsBlankOrTab(c) == c \in {" ", "\t"}

\* replace(/Page \d+ of \d+/gi, '') from position i on
RECURSIVE stripPageOf(_, _)
stripPageOf(s, i) ==
  LET Match(j) == matchPageOf(s, j)
      m == nextMatch(s, i, Match)
  IN  IF m = 0 THEN Tail_(s, i)
      ELSE SubSeq(s, i, m - 1) \o stripPageOf(s, Match(m))

\* replace(/^\d+\s*$/gm, '') from position i on
RECURSIVE stripLoneNumbers(_, _)
stripLoneNumbers(s, i) ==
  LET Match(j) == matchLoneNumber(s, j)
      m == nextMatch(s, i, Match)
  IN  IF m = 0 THEN Tail_(s, i)
      ELSE SubSeq(s, i, m - 1) \o stripLoneNumbers(s, Match(m))

\* replace(/^[\s\-_]+$/gm, '') from position i on
RECURSIVE stripBlankLines(_, _)
stripBlankLines(s, i) ==
  LET Match(j) == matchBlankLine(s, j)
      m == nextMatch(s, i, Match)
  IN  IF m = 0 THEN Tail_(s, i)
      ELSE SubSeq(s, i, m - 1) \o stripBlankLines(s, Match(m))

\* replace(/^\d+$/gm, '') from position i on
RECURSIVE stripBareNumbers(_, _)
stripBareNumbers(s, i) ==
  LET Match(j) == matchBareNumber(s, j)
      m == nextMatch(s, i, Match)
  IN  IF m = 0 THEN Tail_(s, i)
      ELSE SubSeq(s, i, m - 1) \o stripBareNumbers(s, Match(m))

\* replace(/(\w)-\s*\n(\w)/g, "$1$2") from position i on
RECURSIVE rejoinHyphens(_, _)
rejoinHyphens(s, i) ==
  LET Match(j) == matchHyphenBreak(s, j)
      m == nextMatch(s, i, Match)
  IN  IF m = 0 THEN Tail_(s, i)
      ELSE SubSeq(s, i, m - 1) \o << s[m], s[Match(m) - 1] >>
           \o rejoinHyphens(s, Match(m))

\* replace(/[ \t]+/g, " "): of a run of blanks and tabs one blank stays
collapseBlanks(s) ==
  LET Kept(i) == ~(IsBlankOrTab(s[i]) /\ i >= 2 /\ IsBlankOrTab(s[i - 1]))
      kept == keepAt(s, Kept)
  IN  [ j \in DOMAIN kept |-> IF kept[j] = "\t" THEN " " ELSE kept[j] ]

\* a character of [\u0000-\u0008\u000B\u000C\u000E-\u001F\u007F-\u009F]:
\* the form feed, and BEL standing for the others
BEL == "U+0007"
ControlChars == {"\f", BEL}


(***************************************************************************)
(* index.js: cleanPages                                                    *)
(***************************************************************************)
MIN_CHARS_PER_PAGE == 50

\* the four replace calls on the reconstructed text of one page
cleanArtifacts(cleaned) ==
  stripBlankLines(
    stripLoneNumbers(
      stripPageOf(Without(cleaned, {"\f"}), 1), 1), 1)

\* pages are numbered by their position in the array that is passed in
cleanPages(pages) ==
  LET mapped == [ idx \in DOMAIN pages |->
                    [ pageNumber |-> idx,
                      text |-> cleanArtifacts(cleanNaturalText(pages[idx].text)) ] ]
      Kept(p) == Len(trim(p.text)) >= MIN_CHARS_PER_PAGE
  IN  SelectSeq(mapped, Kept)

(***************************************************************************)
(* part_000: TextStructureAnalyzer.  he.decode leaves text without         *)
(* character references as it is, and no text of the model holds an        *)
(* ampersand.                                                              *)
(***************************************************************************)
BLACK_CIRCLE == "U+25CF"

\* stats.medianLength, doubled; 0 for a document without lines
analyzeDocument_p0(lines) ==
  IF lines = << >> THEN 0 ELSE median2([ i \in DOMAIN lines |-> Len(lines[i]) ])

IsCapsClass(c) == IsUpper(c) \/ IsDigit(c) \/ IsSpace(c) \/ c \in {"-", "."}

\* /^(\d+\.|\d+\.\d+|[IVXLCDM]+\.)\s+[A-Z]/
sectionNumberHeader_p0(line) ==
  LET n1 == numberedMarkerEnd(line, {"."})
      n2 == runEnd(line, n1, IsDigit)
      r == runEnd(line, 1, IsRoman)
      r1 == IF r > 1 /\ r <= Len(line) /\ line[r] = "." THEN r + 1 ELSE 0
      Follows(m) == /\ m > 0
                    /\ runEnd(line, m, IsSpace) > m
                    /\ runEnd(line, m, IsSpace) <= Len(line)
                    /\ IsUpper(line[runEnd(line, m, IsSpace)])
  IN  \/ Follows(n1)
      \/ (n1 > 0 /\ n2 > n1 /\ Follows(n2))
      \/ Follows(r1)

\* if (isAllCaps && words.length <= 8) score += 4
allCapsScore_p0(line) ==
  IF isUpperCase(line) /\ Len(splitWs(line)) <= 8 THEN 4 ELSE 0

isHeaderLine_p0(lines, line, index) ==
  LET len == Len(line)
      \* /^[A-Z0-9][A-Z0-9\s\-\.]+$/
      capsOnly == /\ len >= 2
                  /\ (IsUpper(line[1]) \/ IsDigit(line[1]))
                  /\ \A i \in 2..len : IsCapsClass(line[i])
      score ==
          allCapsScore_p0(line)
        + (IF capsOnly /\ len < 60 THEN 2 ELSE 0)
        + (IF sectionNumberHeader_p0(line) THEN 3 ELSE 0)
        + (IF line[len] = ":" /\ len < 50 THEN 2 ELSE 0)
        + (IF line[1] = "#" /\ runEnd(line, 1, LAMBDA c : c = "#") <= len
              /\ IsSpace(line[runEnd(line, 1, LAMBDA c : c = "#")])
           THEN 5 ELSE 0)
        \* line.length < medianLength * 0.7, and no [.!?] at the end
        + (IF 20 * len < 7 * analyzeDocument_p0(lines)
              /\ line[len] \notin {".", "!", "?"}
           THEN 2 ELSE 0)
  IN  IF len < 3 \/ len > 120 THEN FALSE ELSE score >= 4

\* /^(\d+[\.\)]|[\-\*•○§]|([a-z]|[A-Z])[\.\)])\s+/u, or a leading glyph of
\* the second pattern (BLACK_CIRCLE stands for those that are only there)
isListItem_p0(line) ==
  LET n == numberedMarkerEnd(line, {".", ")"})
      m == IF n > 0 THEN n
           ELSE IF line # << >> /\ line[1] \in {"-", "*", BULLET, WHITE_CIRCLE, SECTION_SIGN}
                THEN 2
           ELSE IF Len(line) >= 2 /\ (IsLower(line[1]) \/ IsUpper(line[1]))
                   /\ line[2] \in {".", ")"}
                THEN 3
           ELSE 0
  IN  \/ (m > 0 /\ runEnd(line, m, IsSpace) > m)
      \/ (line # << >> /\ line[1] \in {BLACK_CIRCLE, WHITE_CIRCLE, BULLET})

\* shouldJoin(prevLine, currLine) of an analyzer with the given lines
shouldJoin(lines, prevLine, currLine) ==
  IF prevLine = << >> THEN FALSE
  ELSE IF isListItem_p0(currLine) \/ isListItem_p0(prevLine) THEN FALSE
  ELSE LET endsWithPunct == prevLine[Len(prevLine)] \in {".", "!", "?", ";", ":"}
           startsWithLower == currLine # << >> /\ IsLower(currLine[1])
       IN  IF startsWithLower THEN TRUE
           \* prevLine.length > medianLength * 0.5
           ELSE ~endsWithPunct /\ 4 * Len(prevLine) > analyzeDocument_p0(lines)

(***************************************************************************)
(* part_000: processContent.  The sentence tokenizer is an external        *)
(* library: getSentences().join(" ") is taken to give back a paragraph     *)
(* whose words are separated by single spaces.                             *)
(***************************************************************************)
sentences(text) == text

\* flush(): the paragraph under construction becomes a block
flush(st) ==
  IF Len(st.currentParagraph) > 0
  THEN [ blocks |-> Append(st.blocks, sentences(join(st.currentParagraph, << " " >>))),
         currentParagraph |-> << >> ]
  ELSE st

\* one iteration of the loop over the lines: the body for lines[i]
\* (i zero-based)
contentStep(lines, i, st) ==
  LET line == lines[i + 1]
  IN  IF isHeaderLine_p0(lines, line, i)
      THEN [ flush(st) EXCEPT !.blocks =
               Append(@, << "\n", "#", "#", "#", " " >> \o toUpperCase(line)
                         \o << " ", "#", "#", "#", "\n" >>) ]
      ELSE IF isListItem_p0(line)
      THEN [ flush(st) EXCEPT !.blocks = Append(@, line) ]
      ELSE LET cp == st.currentParagraph
               s1 == IF Len(cp) > 0 /\ ~shouldJoin(lines, cp[Len(cp)], line)
                     THEN flush(st) ELSE st
           IN  [ s1 EXCEPT !.currentParagraph = Append(@, line) ]

RECURSIVE contentFrom(_, _, _)
contentFrom(lines, i, st) ==
  IF i >= Len(lines) THEN st ELSE contentFrom(lines, i + 1, contentStep(lines, i, st))

\* the loop over the lines and the last flush
contentBlocks(lines) ==
  flush(contentFrom(lines, 0, [blocks |-> << >>, currentParagraph |-> << >>])).blocks

processContent(rawText) ==
  IF rawText = << >> THEN << >>
  ELSE trim(collapseNewlines(join(contentBlocks(analyzerLines(rawText)), << "\n", "\n" >>)))

applyArtifactCleanup(text) ==
  collapseBlanks(
    rejoinHyphens(
      Without(
        stripBareNumbers(
          stripPageOf(Without(text, {"\f"}), 1), 1),
        ControlChars), 1))

\* const processedPages = pages.map(...).filter(p => p.text.length > 10)
processedPages(pages) ==
  LET mapped == [ i \in DOMAIN pages |->
                    [ pages[i] EXCEPT !.text = applyArtifactCleanup(processContent(@)) ] ]
      Kept(p) == Len(p.text) > 10
  IN  SelectSeq(mapped, Kept)


(***************************************************************************)
(* File names of the input and the output directory.                       *)
(***************************************************************************)
DOT_PDF == << ".", "p", "d", "f" >>

\* file.replace(".pdf", ""): the first occurrence is removed
replaceFirst(file, pat) ==
  LET Match(j) == IF OccursAt(file, j, pat) THEN j + Len(pat) ELSE 0
      m == nextMatch(file, 1, Match)
  IN  IF m = 0 THEN file ELSE SubSeq(file, 1, m - 1) \o Tail_(file, m + Len(pat))

\* path.parse(file).name: the name without its last extension; a dot at the
\* start of the name begins no extension
parseName(file) ==
  LET dots == { i \in 2..Len(file) : file[i] = "." }
  IN  IF dots = {} THEN file
      ELSE SubSeq(file, 1, (CHOOSE i \in dots : \A j \in dots : i >= j) - 1)

\* index.js: const base = file.replace(".pdf", "")
base(file) == replaceFirst(file, DOT_PDF)
\* part_000: const base = path.parse(file).name
base_p0(file) == parseName(file)

baseOf(r, file) == IF r = "index.js" THEN base(file) ELSE base_p0(file)

\* the names of the two artifacts of a document
txtName(r, file) == baseOf(r, file) \o << ".", "t", "x", "t" >>
errName(r, file) ==
  IF r = "index.js"
  THEN base(file) \o << ".", "e", "r", "r", "o", "r", ".", "t", "x", "t" >>
  ELSE base_p0(file) \o << ".", "e", "r", "r", "o", "r", ".", "l", "o", "g" >>

\* index.js: readdirSync(INPUT_DIR).filter(f => f.endsWith(".pdf"))
pdfFiles(listing) ==
  LET IsPdf(f) == endsWith(f, DOT_PDF)
  IN  SelectSeq(listing, IsPdf)

\* part_000: readdirSync(INPUT_DIR).filter(f => /\.pdf$/i.test(f))
pdfFiles_p0(listing) ==
  LET IsPdf(f) == endsWith(toLowerCase(f), DOT_PDF)
  IN  SelectSeq(listing, IsPdf)

pdfFilesOf(r, listing) == IF r = "index.js" THEN pdfFiles(listing) ELSE pdfFiles_p0(listing)

(***************************************************************************)
(* Extraction: the local parser and the OCR backend.                       *)
(*                                                                         *)
(* A parser result is [isArray, pages, text]: result.pages (a sequence of  *)
(* [text]) when isArray, and result.text.  An OCR poll response is         *)
(* [status, pages]: poll.data.status and analyzeResult.pages, a sequence   *)
(* of [pageNumber, lines], lines a sequence of contents.                   *)
(***************************************************************************)
ocrOverride == FALSE

\* index.js extractPdfParse: what it returns for the parser's result
\* a field that the result of a backend does not have reads as undefined
UNDEFINED == << "undefined" >>

\* value || "", and the "" that Array.prototype.join puts for undefined
orEmpty(value) == IF value = UNDEFINED THEN << >> ELSE value

\* a page of the parser's result has no text; a line of an OCR page has no
\* content
lacksText(result) == \E i \in DOMAIN result.pages : result.pages[i].text = UNDEFINED
lacksContent(ocrPages) ==
  \E i \in DOMAIN ocrPages : \E j \in DOMAIN ocrPages[i].lines :
    ocrPages[i].lines[j] = UNDEFINED

extractPdfParse(result) ==
  IF result.isArray /\ Len(result.pages) > 0
  THEN [ i \in DOMAIN result.pages |-> [page |-> i, text |-> orEmpty(result.pages[i].text)] ]
  ELSE LET parts == split(result.text, "\f")
           NonBlank(p) == Len(trim(p.text)) > 0
       IN  SelectSeq([ i \in DOMAIN parts |-> [page |-> i, text |-> parts[i]] ], NonBlank)

\* part_000 extractPdfParse
extractPdfParse_p0(result) ==
  IF result.isArray
  THEN [ i \in DOMAIN result.pages |-> [page |-> i, text |-> orEmpty(result.pages[i].text)] ]
  ELSE LET parts == split(result.text, "\f")
       IN  [ i \in DOMAIN parts |-> [page |-> i, text |-> parts[i]] ]

\* index.js: pages.some(p => p.text.length >= MIN_CHARS_PER_PAGE)
usable(pages) == \E i \in DOMAIN pages : Len(pages[i].text) >= MIN_CHARS_PER_PAGE

\* a usable test that takes half of the pages, and none of none, as enough
halfUsable(pages) ==
  LET good == { i \in DOMAIN pages : Len(trim(pages[i].text)) >= MIN_CHARS_PER_PAGE }
  IN  2 * Cardinality(good) >= Len(pages)

\* part_000: pages.filter(p => p.text.trim().length >= MIN_CHARS_PER_PAGE).length
\*             / pages.length > 0.5   (0 / 0 is NaN, and NaN > 0.5 is false)
usable_p0(pages) ==
  LET good == { i \in DOMAIN pages : Len(trim(pages[i].text)) >= MIN_CHARS_PER_PAGE }
  IN  2 * Cardinality(good) > Len(pages)

\* the return of extractAzure: result.analyzeResult.pages.map(...)
azurePages(ocrPages) ==
  [ i \in DOMAIN ocrPages |->
      [ page |-> ocrPages[i].pageNumber,
        text |-> join([ j \in DOMAIN ocrPages[i].lines |-> orEmpty(ocrPages[i].lines[j]) ],
                      << "\n" >>) ] ]

\* the transcript written for a document: the engine of the manifest and
\* the page sections, each with the number printed in its heading
transcript(method, sections) == [kind |-> "transcript", method |-> method, sections |-> sections]

\* index.js: cleanedPages.map(p => `=== PAGE ${p.pageNumber} ===\n\n${p.text}`)
pageSections(cleanedPages) ==
  [ i \in DOMAIN cleanedPages |->
      [number |-> cleanedPages[i].pageNumber, text |-> cleanedPages[i].text] ]

\* index.js: the output of processSinglePDF
output(method, pages) == transcript(method, pageSections(cleanPages(pages)))

\* part_000: processedPages.map(p => `[PAGE ${p.page}]\n${p.text}`)
pageSections_p0(pp) ==
  [ i \in DOMAIN pp |-> [number |-> pp[i].page, text |-> pp[i].text] ]

\* part_000: the output of processSinglePDF
output_p0(method, pages) == transcript(method, pageSections_p0(processedPages(pages)))

\* the error artifact: err.stack
errorRecord == [kind |-> "error"]


(***************************************************************************)
(* The batch: runQueue with its workers, and processSinglePDF.             *)
(***************************************************************************)
VARIABLES
  rev,       \* the revision that runs: "index.js" or "part_000"
  limit,     \* CONCURRENCY, the limit passed to runQueue
  items,     \* pdfFiles, the items passed to runQueue
  queue,     \* the queue of runQueue: positions in items not yet shifted
  wpc,       \* per worker: "new", "await", "done" or "rejected"
  witem,     \* per worker: the item it is awaiting (0: none)
  taken,     \* per worker: the items it has passed to worker(item), in order
  phase,     \* per document: where its processSinglePDF call is
  pages,     \* per document: the variable pages of processSinglePDF
  statuses,  \* per document: the status of each poll response so far
  missing,   \* per document: the backends ("pdf-parse", "azure") whose
             \* result, as received, had a page text or a line content
             \* missing
  files,     \* the output directory: file name -> what was written
  rq,        \* the promise of runQueue: "pending", "fulfilled", "rejected"
  alive      \* the Node.js process is running

vars == << rev, limit, items, queue, wpc, witem, taken, phase, pages,
           statuses, missing, files, rq, alive >>

Revs == {"index.js", "part_000"}
Docs == DOMAIN items
Workers == 1..limit

\* a processSinglePDF call that has returned: the transcript is written
\* ("ok"), the error artifact is written ("err"), or the call has thrown out
\* of its catch block ("threw")
Settled == {"ok", "err", "threw"}
\* a call that is awaiting the parser, the OCR submit or an OCR poll
InFlight == {"local", "submit", "poll"}

\* fs.writeFileSync(name, content)
writeFile(fs, name, content) ==
  [ n \in DOMAIN fs \cup {name} |-> IF n = name THEN content ELSE fs[n] ]

\* the catch block of processSinglePDF for document d; errOk tells whether
\* its writeFileSync succeeds (when it throws, the call rejects)
catchBlock(d, errOk) ==
  IF errOk
  THEN /\ files' = writeFile(files, errName(rev, items[d]), errorRecord)
       /\ phase' = [phase EXCEPT ![d] = "err"]
  ELSE /\ files' = files
       /\ phase' = [phase EXCEPT ![d] = "threw"]

outputOf(r, method, finalPages) ==
  IF r = "index.js" THEN output(method, finalPages) ELSE output_p0(method, finalPages)

\* the rest of the try block once pages is final: clean, build the output
\* and write it; io tells which writes the file system refuses
\* ("ok": none, "txtfail": the transcript, "allfail": every write)
writeOutput(d, method, finalPages, io) ==
  IF io = "ok"
  THEN /\ files' = writeFile(files, txtName(rev, items[d]), outputOf(rev, method, finalPages))
       /\ phase' = [phase EXCEPT ![d] = "ok"]
  ELSE catchBlock(d, io = "txtfail")

\* a worker that does not wait for the call it has made
noAwait(w) == TRUE

\* await worker(item): the worker goes on when the call for its item has
\* settled
awaitSettled(w) == phase[witem[w]] \in Settled

\* a queue that is read without removing its head
peeked(q) == q

\* queue.shift(): what is left of the queue
shifted(q) == Tail(q)

\* Promise.all(workers) after worker w has ended as outcome
promiseAll(w, outcome) ==
  IF rq # "pending" THEN rq
  ELSE IF outcome = "rejected" THEN "rejected"
  ELSE IF \A v \in Workers \ {w} : wpc[v] = "done" THEN "fulfilled"
  ELSE "pending"

\* one turn of the loop of a worker: while (queue.length) { shift; if (item)
\* await worker(item) }, up to the await or the end of the loop.  The items
\* are names from readdirSync, which are never empty, so if (item) holds.
\* The call worker(item) runs processSinglePDF up to its first await, the
\* parser's getText().
loopTurn(w) ==
  IF Len(queue) = 0
  THEN /\ wpc' = [wpc EXCEPT ![w] = "done"]
       /\ rq' = promiseAll(w, "done")
       /\ UNCHANGED << queue, witem, taken, phase >>
  ELSE LET item == Head(queue)
       IN  /\ queue' = shifted(queue)
           /\ rq' = rq
           /\ wpc' = [wpc EXCEPT ![w] = "await"]
           /\ witem' = [witem EXCEPT ![w] = item]
           /\ taken' = [taken EXCEPT ![w] = Append(@, item)]
           /\ phase' = [phase EXCEPT ![item] = "local"]

\* Array.from({ length: limit }, async () => ...): the workers are created
\* one after the other, and each runs at once up to its first await
StartWorker(w) ==
  /\ alive
  /\ wpc[w] = "new"
  /\ \A v \in 1..(w - 1) : wpc[v] # "new"
  /\ loopTurn(w)
  /\ UNCHANGED << rev, limit, items, pages, statuses, missing, files, alive >>

Created == \A w \in Workers : wpc[w] # "new"

\* the await of a worker ends: with the next turn of the loop when the call
\* returned, with the rejection of the worker when it threw
ResumeWorker(w) ==
  /\ alive /\ Created
  /\ wpc[w] = "await"
  /\ awaitSettled(w)
  /\ IF phase[witem[w]] = "threw"
     THEN /\ wpc' = [wpc EXCEPT ![w] = "rejected"]
          /\ rq' = promiseAll(w, "rejected")
          /\ UNCHANGED << queue, witem, taken, phase >>
     ELSE loopTurn(w)
  /\ UNCHANGED << rev, limit, items, pages, statuses, missing, files, alive >>

\* const usable = ...
usableOf(r, local) == IF r = "index.js" THEN usable(local) ELSE usable_p0(local)

\* processSinglePDF from the value of extractPdfParse on: the OCR backend is
\* asked when the pages are not usable, else the pages are written
afterLocal(d, local, io) ==
  /\ pages' = [pages EXCEPT ![d] = local]
  /\ IF ~usableOf(rev, local) \/ ocrOverride
     THEN \* extractAzure: the submit request is under way
          /\ phase' = [phase EXCEPT ![d] = "submit"]
          /\ files' = files
     ELSE writeOutput(d, "pdf-parse", local, io)

\* the parser answers document d: it throws (or the source could not be
\* read), or getText() gives result
LocalReturns(d, threw, result, io) ==
  /\ alive /\ Created
  /\ phase[d] = "local"
  /\ IF threw
     THEN /\ catchBlock(d, io # "allfail")
          /\ pages' = pages
     ELSE afterLocal(d, IF rev = "index.js" THEN extractPdfParse(result)
                        ELSE extractPdfParse_p0(result), io)
  /\ missing' = IF ~threw /\ lacksText(result)
                THEN [missing EXCEPT ![d] = @ \cup {"pdf-parse"}] ELSE missing
  /\ UNCHANGED << rev, limit, items, queue, wpc, witem, taken, statuses, rq, alive >>

\* the OCR backend answers the submit request of document d
SubmitReturns(d, accepted, io) ==
  /\ alive /\ Created
  /\ phase[d] = "submit"
  /\ IF accepted
     THEN /\ phase' = [phase EXCEPT ![d] = "poll"]
          /\ files' = files
     ELSE catchBlock(d, io # "allfail")
  /\ UNCHANGED << rev, limit, items, queue, wpc, witem, taken, pages, statuses,
                  missing, rq, alive >>

\* pages = await extractAzure(pdfPath) has its value, and the rest of the
\* try block runs
ocrDone(d, ocr, io) ==
  /\ pages' = [pages EXCEPT ![d] = ocr]
  /\ writeOutput(d, "azure", ocr, io)

\* the OCR backend answers a poll of document d with resp; the status
\* "error" stands for a request that throws
PollReturns(d, resp, io) ==
  /\ alive /\ Created
  /\ phase[d] = "poll"
  /\ Len(statuses[d]) < MaxPolls
  /\ statuses' = [statuses EXCEPT ![d] = Append(@, resp.status)]
  /\ IF resp.status = "error"
     THEN /\ catchBlock(d, io # "allfail")
          /\ pages' = pages
     ELSE IF resp.status = "succeeded"
     THEN ocrDone(d, azurePages(resp.pages), io)
     ELSE IF resp.status = "failed" /\ rev = "part_000"
     THEN \* throw new Error("Azure OCR Failed")
          /\ catchBlock(d, io # "allfail")
          /\ pages' = pages
     ELSE \* the loop goes round: sleep, then the next poll
          /\ UNCHANGED << phase, pages, files >>
  /\ missing' = IF resp.status = "succeeded" /\ lacksContent(resp.pages)
                THEN [missing EXCEPT ![d] = @ \cup {"azure"}] ELSE missing
  /\ UNCHANGED << rev, limit, items, queue, wpc, witem, taken, rq, alive >>

\* runQueue(...) is called without a handler for its rejection: once its
\* promise is rejected Node.js may end the process
ProcessExit ==
  /\ alive
  /\ rq = "rejected"
  /\ alive' = FALSE
  /\ UNCHANGED << rev, limit, items, queue, wpc, witem, taken, phase, pages,
                  statuses, missing, files, rq >>


(***************************************************************************)
(* The environment: directory listings, parser results, OCR responses and  *)
(* the file system's answers.                                              *)
(***************************************************************************)
A_PDF == << "a", ".", "p", "d", "f" >>
B_PDF == << "b", ".", "p", "d", "f" >>
C_PDF == << "c", ".", "p", "d", "f" >>
D_UPPER_PDF == << "d", ".", "P", "D", "F" >>
NOTES_TXT == << "n", ".", "t", "x", "t" >>

\* what readdirSync(INPUT_DIR) may give
Listings == { << A_PDF, NOTES_TXT, B_PDF, C_PDF >>, << A_PDF, D_UPPER_PDF >> }

X10 == Rep("x", 10)
X11 == Rep("x", 11)
X49 == Rep("x", 49)
X50 == Rep("x", 50)
\* 50 characters of which 49 remain after trim()
SP_X49 == << " " >> \o X49
\* 50 characters and more, of which 49 remain once the "Page 1 of 9" line is
\* cleaned away
X49_FOOTER == X49 \o << "\n", "P", "a", "g", "e", " ", "1", " ", "o", "f", " ", "9" >>

IoOutcomes == {"ok", "txtfail", "allfail"}

\* sequences over S of length at most n
SeqUpTo(S, n) == UNION { [1..k -> S] : k \in 0..n }

\* parser results of the batch: one page of 50 characters, or no page
BatchParserResults ==
  { [isArray |-> TRUE, pages |-> << [text |-> X50] >>, text |-> X50],
    [isArray |-> TRUE, pages |-> << >>, text |-> << >>] }

\* OCR results of the batch
BatchOcrResults == { << [pageNumber |-> 1, lines |-> << X50 >>] >> }

\* the parser finds no text: a scanned document
NoLocalText == { [isArray |-> TRUE, pages |-> << >>, text |-> << >>] }

\* results that the code cannot interpret: a parser page without a text
\* field (alone, or after a page of 50 characters), an OCR line without
\* content
MalformedParserResults ==
  { [isArray |-> TRUE, pages |-> << [text |-> UNDEFINED] >>, text |-> << >>],
    [isArray |-> TRUE, pages |-> << [text |-> X50], [text |-> UNDEFINED] >>, text |-> << >>] }
MalformedOcrResults == { << [pageNumber |-> 1, lines |-> << X50, UNDEFINED >>] >> }

\* parser results of a single document: up to MaxPages pages
DocLocalTexts == { X49, X50, SP_X49 }
DocParserResults ==
  { [isArray |-> TRUE, pages |-> ps, text |-> << >>] :
      ps \in SeqUpTo({ [text |-> t] : t \in DocLocalTexts }, MaxPages) }
  \cup { [isArray |-> FALSE, pages |-> << >>, text |-> X50 \o << "\f" >> \o X49] }
  \cup MalformedParserResults

\* OCR results of a single document: up to MaxPages pages, in any order,
\* with distinct numbers up to MaxPageNo
DocOcrTexts == { X10, X11, X49, X50, X49_FOOTER }
DocOcrResults ==
  { ps \in SeqUpTo({ [pageNumber |-> n, lines |-> << t >>] :
                       n \in 1..MaxPageNo, t \in DocOcrTexts }, MaxPages) :
      \A i, j \in DOMAIN ps : i # j => ps[i].pageNumber # ps[j].pageNumber }

\* the poll responses: a status other than "succeeded" carries no result
PollResponses(Statuses, OcrResults) ==
  { [status |-> st, pages |-> << >>] : st \in Statuses \ {"succeeded"} }
  \cup { [status |-> st, pages |-> ps] : st \in Statuses \cap {"succeeded"}, ps \in OcrResults }

\* the batch sees polls that succeed or throw, the batch with a failing OCR
\* operation polls that succeed or report failed; a single document sees
\* every status
BatchStatuses == {"succeeded", "error"}
FailingStatuses == {"succeeded", "failed"}
DocStatuses == {"running", "failed", "succeeded", "error"}

(***************************************************************************)
(* The specifications.                                                     *)
(***************************************************************************)
\* the state when runQueue(pdfFiles, processSinglePDF, limit) is called
InitWith(L, Limits) ==
  /\ rev \in Revs
  /\ limit \in Limits
  /\ \E listing \in L : items = pdfFilesOf(rev, listing)
  /\ queue = [ i \in DOMAIN items |-> i ]
  /\ wpc = [ w \in 1..limit |-> "new" ]
  /\ witem = [ w \in 1..limit |-> 0 ]
  /\ taken = [ w \in 1..limit |-> << >> ]
  /\ phase = [ d \in DOMAIN items |-> "queued" ]
  /\ pages = [ d \in DOMAIN items |-> << >> ]
  /\ statuses = [ d \in DOMAIN items |-> << >> ]
  /\ missing = [ d \in DOMAIN items |-> {} ]
  /\ files = << >>
  /\ rq = "pending"
  /\ alive = TRUE

NextWith(ParserResults, Statuses, OcrResults) ==
  \/ \E w \in Workers : StartWorker(w)
  \/ \E w \in Workers : ResumeWorker(w)
  \/ \E d \in Docs, threw \in BOOLEAN, r \in ParserResults, io \in IoOutcomes :
       LocalReturns(d, threw, r, io)
  \/ \E d \in Docs, accepted \in BOOLEAN, io \in IoOutcomes : SubmitReturns(d, accepted, io)
  \/ \E d \in Docs, io \in IoOutcomes :
       \E resp \in PollResponses(Statuses, OcrResults) : PollReturns(d, resp, io)
  \/ ProcessExit

\* a batch of up to three documents with up to MaxWorkers workers
Init == InitWith(Listings, 1..MaxWorkers)
Next == NextWith(BatchParserResults, BatchStatuses, BatchOcrResults)
Spec == Init /\ [][Next]_vars

\* the same batch with OCR operations that report failed
NextFailing == NextWith(BatchParserResults, FailingStatuses, BatchOcrResults)
SpecFailing == Init /\ [][NextFailing]_vars

\* one document, with every parser result of the bounds
InitDoc == InitWith({ << A_PDF >> }, {1})
NextDoc == NextWith(DocParserResults, DocStatuses, BatchOcrResults \cup MalformedOcrResults)
SpecDoc == InitDoc /\ [][NextDoc]_vars

\* one scanned document, with every OCR result of the bounds
NextOcr == NextWith(NoLocalText, DocStatuses, DocOcrResults)
SpecOcr == InitDoc /\ [][NextOcr]_vars

\* input directories of two documents whose names differ by a second or a
\* leading ".pdf", by the case of the extension, or by ".error"
A_PDF_PDF == << "a", ".", "p", "d", "f", ".", "p", "d", "f" >>
HIDDEN_A_PDF == << ".", "p", "d", "f", "a", ".", "p", "d", "f" >>
A_UPPER_PDF == << "a", ".", "P", "D", "F" >>
A_ERROR_PDF == << "a", ".", "e", "r", "r", "o", "r", ".", "p", "d", "f" >>
NameListings ==
  { << A_PDF_PDF, HIDDEN_A_PDF >>, << A_PDF, A_UPPER_PDF >>, << A_ERROR_PDF, A_PDF >>,
    << A_PDF, B_PDF >> }

\* the batch over these directories
InitNames == InitWith(NameListings, 1..MaxWorkers)
SpecNames == InitNames /\ [][Next]_vars

(***************************************************************************)
(* Page texts for the reconstruction: the lines an OCR page is made of.    *)
(***************************************************************************)
CHAPTER_ONE ==
  << "C", "H", "A", "P", "T", "E", "R", " ", "O", "N", "E" >>
SENTENCE_START ==
  << "T", "h", "i", "s", " ", "i", "s", " ", "a", " ", "s", "e", "n", "t",
     "e", "n", "c", "e", " ", "t", "h", "a", "t" >>
SENTENCE_END ==
  << "c", "o", "n", "t", "i", "n", "u", "e", "s", " ", "h", "e", "r", "e",
     "." >>
FIRST_ITEM ==
  << "1", ".", " ", "F", "i", "r", "s", "t", " ", "i", "t", "e", "m" >>
SECOND_ITEM ==
  << "2", ".", " ", "S", "e", "c", "o", "n", "d", " ", "i", "t", "e", "m" >>
DASH_ITEM ==
  << "-", " ", "f", "i", "r", "s", "t", " ", "i", "t", "e", "m", "." >>
SHORT_LINE == << "A", "b" >>
IT_ENDS == << "I", "t", " ", "e", "n", "d", "s", "." >>
TWELVE == << "1", "2" >>
THE_END == << "T", "H", "E", " ", "E", "N", "D", "." >>
\* a page number after a control character, a line around a form feed
BEL_TWELVE == << BEL, "1", "2" >>
FORM_FEED_LINE == << "I", "t", "\f", "e", "n", "d", "s", "." >>
\* a word hyphenated at the end of a line, and the line it goes on in
EXAM_HYPHEN == << "e", "x", "a", "m", "-" >>
PLE_TEXT == << "p", "l", "e", " ", "t", "e", "x", "t", "." >>
ELEVEN_WORDS ==
  << "A", " ", "B", " ", "C", " ", "D", " ", "E", " ", "F", " ", "G", " ",
     "H", " ", "I", " ", "J", " ", "K" >>

\* three long sentences: of 90 and of 80 characters, and one of 54 that
\* starts with a header keyword in lower case
LONG_A == Rep("x", 89) \o << "." >>
LONG_B == Rep("y", 79) \o << "." >>
SECTION_LINE ==
  << "s", "e", "c", "t", "i", "o", "n", " " >> \o Rep("z", 45) \o << "." >>

\* a title, a sentence broken in two, and a list of two numbered items
CHAPTER_DOC ==
  << CHAPTER_ONE, SENTENCE_START, SENTENCE_END, FIRST_ITEM, SECOND_ITEM >>

\* the lines the pages are drawn from, and the number of lines up to which
\* every page is drawn
TextLines ==
  { CHAPTER_ONE, SENTENCE_START, SENTENCE_END, FIRST_ITEM, DASH_ITEM,
    SHORT_LINE, IT_ENDS }
MaxLines == 2
\* a numbered line between two longer lines
NUMBERED_DOC == << SENTENCE_START, FIRST_ITEM, SENTENCE_START >>

\* a line of two spaces: a page of such lines is only whitespace
BLANK_LINE == << " ", " " >>

\* the pages: every sequence of up to MaxLines lines, and the longer ones
\* that have a name
NamedDocs ==
  { CHAPTER_DOC, NUMBERED_DOC, << ELEVEN_WORDS >>, << FORM_FEED_LINE, TWELVE >>,
    << THE_END >>, << SENTENCE_START, THE_END >>, << THE_END, SHORT_LINE >>,
    << BEL_TWELVE >>, << IT_ENDS, BEL_TWELVE >>, << TWELVE >>,
    << IT_ENDS, TWELVE >>, << TWELVE, IT_ENDS >>,
    << EXAM_HYPHEN, PLE_TEXT >>, << IT_ENDS, EXAM_HYPHEN, PLE_TEXT >>,
    << LONG_A, LONG_B, SECTION_LINE >>,
    << SHORT_LINE, SENTENCE_START, SENTENCE_START >>,
    << BLANK_LINE >>, << BLANK_LINE, BLANK_LINE >> }
TextDocs == SeqUpTo(TextLines, MaxLines) \cup NamedDocs

\* OCR results of one page whose lines are those of a document
TextOcrResults == { << [pageNumber |-> 1, lines |-> ls] >> : ls \in TextDocs }

\* one scanned document, with every page text of the bounds
NextText == NextWith(NoLocalText, BatchStatuses, TextOcrResults)
SpecText == InitDoc /\ [][NextText]_vars

(***************************************************************************)
(* What the checked properties speak about.                                *)
(***************************************************************************)
\* the transcript, the error artifact of document d is in the output directory
hasTranscript(d) == txtName(rev, items[d]) \in DOMAIN files
hasErrorArtifact(d) == errName(rev, items[d]) \in DOMAIN files
transcriptOf(d) == files[txtName(rev, items[d])]

\* no worker of runQueue runs any more
WorkersEnded == \A w \in Workers : wpc[w] \in {"done", "rejected"}

\* the batch has finished: the promise of runQueue is settled and no worker
\* runs, or the process has ended
BatchFinished == (rq # "pending" /\ WorkersEnded) \/ ~alive

\* the number of times document d was passed to worker(item)
timesHanded(d) ==
  Cardinality({ << w, i >> \in Workers \X (1..Len(items)) :
                  i <= Len(taken[w]) /\ taken[w][i] = d })

\* the documents whose processSinglePDF call is under way
InProcess == { d \in Docs : phase[d] \in InFlight }

(***************************************************************************)
(* C1 - C6: the batch.                                                     *)
(***************************************************************************)
\* C1: a failure while processing one document never aborts the batch: when
\* no worker runs any more, every document of the set has been taken from
\* the queue and processed to its own outcome.
C1_FailureNeverAbortsBatch ==
  (WorkersEnded \/ ~alive) => \A d \in Docs : phase[d] \in Settled

\* a batch whose only worker has ended while documents are still queued
C1_AbortedBatch ==
  /\ WorkersEnded
  /\ \E d \in Docs : phase[d] = "threw"
  /\ \E d \in Docs : phase[d] = "queued" /\ d \in Range(queue)

\* C2: when the batch has finished, every input document has exactly one
\* outcome artifact, its transcript or its error artifact, never both and
\* never neither.  A document whose writes were all refused by the file
\* system can have none, and is left out.
C2_ExactlyOneArtifact ==
  BatchFinished =>
    \A d \in Docs : phase[d] # "threw" => (hasTranscript(d) # hasErrorArtifact(d))

\* a finished batch with a document that was never processed and has no
\* artifact
C2_DocumentWithoutArtifact ==
  /\ BatchFinished
  /\ \E d \in Docs : phase[d] = "queued" /\ ~hasTranscript(d) /\ ~hasErrorArtifact(d)

\* C3: when the OCR poll of a document returns the status failed, the
\* processing of that document ends there with its error artifact and
\* without a transcript (when the error artifact cannot be written, without
\* any artifact), and no other document or artifact is touched.
C3_FailedPollFailsDocument ==
  [][\A d \in Docs :
       (Len(statuses'[d]) = Len(statuses[d]) + 1
          /\ statuses'[d][Len(statuses'[d])] = "failed")
       => /\ phase'[d] \in {"err", "threw"}
          /\ phase'[d] = "err" => hasErrorArtifact(d)'
          /\ ~hasTranscript(d)'
          /\ \A e \in Docs \ {d} : phase'[e] = phase[e]]_vars

\* a document that is polled again after a response with the status failed
C3_PolledAfterFailed ==
  \E d \in Docs : phase[d] = "poll" /\ "failed" \in Range(statuses[d])

\* C4: the OCR poll loop is bounded: a document whose backend has answered
\* running on every one of MaxPolls polls is not polled any longer, and has
\* failed.
C4_PollLoopIsBounded ==
  \A d \in Docs :
    (Len(statuses[d]) = MaxPolls /\ \A i \in 1..MaxPolls : statuses[d][i] = "running")
    => phase[d] \in {"err", "threw"}

\* a document that is still in the poll loop after MaxPolls answers of running
C4_StillPolling ==
  \E d \in Docs :
    /\ phase[d] = "poll"
    /\ Len(statuses[d]) = MaxPolls
    /\ \A i \in 1..MaxPolls : statuses[d][i] = "running"

\* C5: at every moment at most limit documents are in process, and every
\* document a worker has taken before its latest one has been processed to
\* its end: a worker takes its next document only after the processing of
\* its current one has completed.
C5_BoundedConcurrency ==
  /\ Cardinality(InProcess) <= limit
  /\ \A w \in Workers : \A i \in 1..(Len(taken[w]) - 1) : phase[taken[w][i]] \in Settled

\* limit documents in process at once, by workers of which one is at its
\* second document
C5_PoolFullySpent ==
  /\ limit = MaxWorkers
  /\ Cardinality(InProcess) = limit
  /\ \E w \in Workers : Len(taken[w]) >= 2 /\ phase[taken[w][Len(taken[w])]] \in InFlight

meetingMinimum(ps) == { i \in DOMAIN ps : Len(ps[i].text) >= MIN_CHARS_PER_PAGE }

\* the fraction of the pages of ps that meet the minimum is at most 0.5
lowYield(ps) == 2 * Cardinality(meetingMinimum(ps)) <= Len(ps)

\* the OCR backend is being asked for document d: pages[d] is still what the
\* local extractor gave
ocrInvoked(d) == phase[d] \in {"submit", "poll"}

\* the transcript of document d is written, from the pages of the engine
writtenBy(d, engine) == phase[d] = "ok" /\ transcriptOf(d).method = engine

\* C7: the OCR backend is invoked exactly when the fraction of the locally
\* extracted pages whose text length is at least MIN_CHARS_PER_PAGE is at
\* most 0.5 or the override is set: it is invoked only then, and a
\* transcript is written from the local pages only when the fraction is
\* above 0.5 and the override is unset.
C7_OcrExactlyOnLowYield ==
  \A d \in Docs :
    /\ ocrInvoked(d) => (lowYield(pages[d]) \/ ocrOverride)
    /\ writtenBy(d, "pdf-parse") => (~lowYield(pages[d]) /\ ~ocrOverride)

\* a transcript written from two local pages of which exactly one meets the
\* minimum
C7_HalfUsableKeptLocal ==
  \E d \in Docs :
    /\ writtenBy(d, "pdf-parse")
    /\ Len(pages[d]) = 2
    /\ Cardinality(meetingMinimum(pages[d])) = 1

\* the strictly increasing maps of 1..m into 1..n
increasingMaps(m, n) ==
  { f \in [1..m -> 1..n] : \A i, j \in 1..m : i < j => f[i] < f[j] }

\* C8: for a document extracted by OCR, the page number shown for each page
\* section of the transcript is the number the backend reported for that
\* page: the numbers shown are, in order, the backend's numbers of the pages
\* that were kept.
C8_BackendPageNumbers ==
  \A d \in Docs :
    writtenBy(d, "azure") =>
      LET sections == transcriptOf(d).sections
      IN  \E f \in increasingMaps(Len(sections), Len(pages[d])) :
            \A k \in DOMAIN sections : sections[k].number = pages[d][f[k]].page

\* a transcript of one OCR page which the backend numbered 2 and the
\* transcript numbers 1
C8_Renumbered ==
  \E d \in Docs :
    /\ writtenBy(d, "azure")
    /\ Len(pages[d]) = 1 /\ pages[d][1].page = 2
    /\ Len(transcriptOf(d).sections) = 1 /\ transcriptOf(d).sections[1].number = 1

\* C9: within the transcript of a document the page sections appear in
\* strictly ascending order of their page numbers.
C9_SectionsAscending ==
  \A d \in Docs :
    phase[d] = "ok" =>
      LET sections == transcriptOf(d).sections
      IN  \A k \in 1..(Len(sections) - 1) : sections[k].number < sections[k + 1].number

\* a transcript whose first section has a greater page number than its second
C9_DescendingSections ==
  \E d \in Docs :
    /\ phase[d] = "ok"
    /\ Len(transcriptOf(d).sections) = 2
    /\ transcriptOf(d).sections[1].number > transcriptOf(d).sections[2].number

\* the cleaned text of a page, as the running revision computes it
cleanedText(r, text) ==
  IF r = "index.js" THEN cleanArtifacts(cleanNaturalText(text))
  ELSE applyArtifactCleanup(processContent(text))

\* C10: a page is in the output of a document exactly when its cleaned text
\* has at least MIN_CHARS_PER_PAGE (50) characters: the transcript has one
\* section for each such page, and no section with a shorter text.
C10_KeptIffLongEnough ==
  \A d \in Docs :
    phase[d] = "ok" =>
      LET sections == transcriptOf(d).sections
          long == { i \in DOMAIN pages[d] :
                      Len(cleanedText(rev, pages[d][i].text)) >= MIN_CHARS_PER_PAGE }
      IN  /\ Len(sections) = Cardinality(long)
          /\ \A k \in DOMAIN sections : Len(sections[k].text) >= MIN_CHARS_PER_PAGE

\* a transcript with a section whose text has fewer than 50 characters
C10_ShortPageKept ==
  \E d \in Docs :
    /\ phase[d] = "ok"
    /\ \E k \in DOMAIN transcriptOf(d).sections :
         Len(transcriptOf(d).sections[k].text) < MIN_CHARS_PER_PAGE

(***************************************************************************)
(* The reconstruction of a page text, as the properties see it.            *)
(***************************************************************************)
\* the reconstruction of revision r: the rendered text of a raw page text
reconstruct(r, rawText) ==
  IF r = "index.js" THEN cleanNaturalText(rawText) ELSE processContent(rawText)

\* the classification of lines[i] (i one-based) by the loop of revision r:
\* the header test comes first, the list item test second
headerAt(r, lines, i) ==
  IF r = "index.js" THEN isHeaderLine(lines, lines[i], i - 1)
  ELSE isHeaderLine_p0(lines, lines[i], i - 1)
listItem(r, line) == IF r = "index.js" THEN isListItem(line) ELSE isListItem_p0(line)
kindAt(r, lines, i) ==
  IF headerAt(r, lines, i) THEN "header"
  ELSE IF listItem(r, lines[i]) THEN "list" ELSE "plain"

\* the lines of a rendered text that are not empty
renderedLines(text) ==
  LET NonEmpty(l) == l # << >>
  IN  SelectSeq(split(text, "\n"), NonEmpty)

\* line is the title between two equal runs of the header marker
isMarked(line, title) ==
  \E k \in 1..3 :
    line = Rep("#", k) \o << " " >> \o title \o << " " >> \o Rep("#", k)

\* the line starts with a numbered list marker: digits, "." or ")", a space
startsNumbered(line) ==
  /\ numberedMarkerEnd(line, {".", ")"}) > 0
  /\ numberedMarkerEnd(line, {".", ")"}) <= Len(line)
  /\ IsSpace(line[numberedMarkerEnd(line, {".", ")"})])

\* the page texts that document d was extracted to
pageTexts(d) == { pages[d][i].text : i \in DOMAIN pages[d] }

\* the page of the title, the broken sentence and the two numbered items
chapterText == join(CHAPTER_DOC, << "\n" >>)

\* C11: the reconstruction of the page "CHAPTER ONE / This is a sentence
\* that / continues here. / 1. First item / 2. Second item" renders, in
\* order, the uppercased title between markers, the one paragraph "This is
\* a sentence that continues here." and the two numbered lines, unmerged;
\* and no line of any page that starts with a numbered list marker is
\* classified as a header.
C11_NumberedLinesAreListLines ==
  \A d \in Docs : \A text \in pageTexts(d) :
    /\ text = chapterText =>
         /\ Len(renderedLines(reconstruct(rev, text))) = 4
         /\ isMarked(renderedLines(reconstruct(rev, text))[1], CHAPTER_ONE)
         /\ SubSeq(renderedLines(reconstruct(rev, text)), 2, 4)
              = << SENTENCE_START \o << " " >> \o SENTENCE_END, FIRST_ITEM, SECOND_ITEM >>
    /\ \A i \in DOMAIN analyzerLines(text) :
         startsNumbered(analyzerLines(text)[i]) => ~headerAt(rev, analyzerLines(text), i)

\* the page of the example is extracted in src/index.js, where its numbered
\* lines are rendered as headers
C11_NumberedLineRenderedAsHeader ==
  \E d \in Docs :
    /\ rev = "index.js"
    /\ chapterText \in pageTexts(d)
    /\ \E k \in DOMAIN renderedLines(reconstruct(rev, chapterText)) :
         isMarked(renderedLines(reconstruct(rev, chapterText))[k], toUpperCase(FIRST_ITEM))

\* src/index.js: the lines of the blocks in emission order, each with the
\* type of its block; a merged line is one line of its block
RECURSIVE blockUnits(_)
blockUnits(blocks) ==
  IF blocks = << >> THEN << >>
  ELSE [ i \in DOMAIN Head(blocks).lines |->
           [type |-> Head(blocks).type, text |-> Head(blocks).lines[i]] ]
       \o blockUnits(Tail(blocks))

\* part_000: the blocks in emission order; a header block is the uppercased
\* line between "\n### " and " ###\n", a list block is a list item line, a
\* paragraph block the lines of a paragraph joined by spaces
contentUnits(blocks) ==
  [ i \in DOMAIN blocks |->
      IF blocks[i] # << >> /\ blocks[i][1] = "\n"
      THEN [type |-> "header", text |-> SubSeq(blocks[i], 6, Len(blocks[i]) - 5)]
      ELSE [type |-> IF isListItem_p0(blocks[i]) THEN "list" ELSE "paragraph",
            text |-> blocks[i]] ]

\* what the reconstruction of revision r makes of the lines, before rendering
units(r, lines) ==
  IF r = "index.js" THEN blockUnits(assembleBlocks(lines))
  ELSE contentUnits(contentBlocks(lines))

\* unit u holds exactly the lines a..b: a header holds one line (part_000
\* stores it uppercased), any other unit its lines joined by single spaces
holds(u, lines, a, b) ==
  IF u.type = "header" THEN a = b /\ toUpperCase(u.text) = toUpperCase(lines[a])
  ELSE u.text = join(SubSeq(lines, a, b), << " " >>)

\* there is no way to read the units as the lines in order
NoGrouping == << [from |-> 0, to |-> 0, type |-> "none"] >>

prepend(g, rest) == IF rest = NoGrouping THEN NoGrouping ELSE << g >> \o rest

\* the groups of consecutive lines that the units us[k], us[k+1], ... hold
\* when they are read in order from line a on and use up all the lines
RECURSIVE groupsFrom(_, _, _, _)
groupsFrom(lines, us, k, a) ==
  IF k > Len(us) THEN (IF a = Len(lines) + 1 THEN << >> ELSE NoGrouping)
  ELSE IF \A b \in a..Len(lines) : ~holds(us[k], lines, a, b) THEN NoGrouping
  ELSE prepend([from |-> a,
                to |-> CHOOSE b \in a..Len(lines) : holds(us[k], lines, a, b),
                type |-> us[k].type],
               groupsFrom(lines, us, k + 1,
                          1 + CHOOSE b \in a..Len(lines) : holds(us[k], lines, a, b)))

\* the groups of the lines of a page text in revision r
grouping(r, text) == groupsFrom(analyzerLines(text), units(r, analyzerLines(text)), 1, 1)

\* the group that holds line i
groupOf(g, i) == CHOOSE k \in DOMAIN g : g[k].from <= i /\ i <= g[k].to

\* C12: after the reconstruction of a page every line belongs to exactly one
\* block and the blocks are in line order: read in emission order, the line
\* contents of the blocks are the lines of the page, each once and in their
\* order, a merged line counting as the lines it was merged from.
C12_EveryLineInOneBlock ==
  \A d \in Docs : \A text \in pageTexts(d) : grouping(rev, text) # NoGrouping

\* the page of the title, the broken sentence and the two numbered items is
\* reconstructed to four blocks, the second a line merged from two
C12_MergedAndOrdered ==
  \E d \in Docs :
    /\ chapterText \in pageTexts(d)
    /\ Len(grouping(rev, chapterText)) = 4
    /\ grouping(rev, chapterText)[2].from = 2
    /\ grouping(rev, chapterText)[2].to = 3

\* in the grouping g of the lines, every list item line is a list unit of
\* its own, and a plain line right after a list item line begins a
\* paragraph unit
listLinesApart(r, lines, g) ==
  /\ g # NoGrouping
  /\ \A i \in DOMAIN lines :
       /\ kindAt(r, lines, i) = "list" =>
            g[groupOf(g, i)] = [from |-> i, to |-> i, type |-> "list"]
       /\ (i > 1 /\ kindAt(r, lines, i) = "plain" /\ kindAt(r, lines, i - 1) = "list") =>
            /\ g[groupOf(g, i)].from = i
            /\ g[groupOf(g, i)].type = "paragraph"

\* C13: list lines are never merged with prose, in either direction: a line
\* classified as list item is its own line of a list block, verbatim; no
\* plain line is concatenated onto a list line; a plain line that follows a
\* list block starts a new paragraph block.
C13_ListLinesNeverMerged ==
  \A d \in Docs : \A text \in pageTexts(d) :
    listLinesApart(rev, analyzerLines(text), grouping(rev, text))

\* a page where a plain line starting in lower case follows a list item line
C13_ProseAfterListItem ==
  \E d \in Docs :
    /\ join(<< DASH_ITEM, SENTENCE_END >>, << "\n" >>) \in pageTexts(d)
    /\ kindAt(rev, << DASH_ITEM, SENTENCE_END >>, 1) = "list"
    /\ kindAt(rev, << DASH_ITEM, SENTENCE_END >>, 2) = "plain"
    /\ hasTranscript(d)

\* a backend has returned, for document d, a result with a piece missing: a
\* parser page without text, an OCR line without content
malformedResult(d) == missing[d] # {}

\* C14: when a backend, the local parser or OCR, returns a result that the
\* code cannot interpret, such as a page with no text field, the document
\* fails with an error artifact: it is never reported as a success with the
\* missing text replaced by empty text.
C14_MalformedResultFailsDocument ==
  \A d \in Docs : malformedResult(d) => ~hasTranscript(d)

\* the parser returned a page of 50 characters and a page without a text
\* field, and the transcript is written by pdf-parse
C14_MissingTextReadAsEmpty ==
  \E d \in Docs :
    /\ missing[d] = {"pdf-parse"}
    /\ writtenBy(d, "pdf-parse")

\* what the all-caps factor of isHeaderLine adds to the score of a line
allCapsFactor(r, line) ==
  IF r = "index.js" THEN allCapsFactor2(line) ELSE allCapsScore_p0(line)

\* C15: in isHeaderLine an all-uppercase line of 11 or more words gets
\* nothing from the all-caps factor, and every all-uppercase line of exactly
\* 2 words is classified as a header, whatever its punctuation, the median
\* length of the page and the lines next to it.
C15_AllCapsWordBounds ==
  \A d \in Docs : \A text \in pageTexts(d) : \A i \in DOMAIN analyzerLines(text) :
    /\ (isUpperCase(analyzerLines(text)[i]) /\ Len(splitWs(analyzerLines(text)[i])) >= 11)
         => allCapsFactor(rev, analyzerLines(text)[i]) = 0
    /\ (isUpperCase(analyzerLines(text)[i]) /\ Len(splitWs(analyzerLines(text)[i])) = 2)
         => headerAt(rev, analyzerLines(text), i)

\* the page of the one line "THE END." is extracted in src/index.js, where
\* the line is no header
C15_TwoCapsWordsNoHeader ==
  \E d \in Docs :
    /\ rev = "index.js"
    /\ pageTexts(d) = { THE_END }
    /\ allCapsFactor(rev, THE_END) > 0
    /\ ~headerAt(rev, << THE_END >>, 1)

\* a line of one or more digits and nothing else
digitsOnly(line) == line # << >> /\ \A i \in DOMAIN line : IsDigit(line[i])

\* the text has no form feed, and none of its lines has only digits
freeOfArtifacts(text) ==
  /\ "\f" \notin Range(text)
  /\ \A i \in DOMAIN splitLines(text) : ~digitsOnly(splitLines(text)[i])

\* C16: for every page text, the output of the artifact cleanup, with all
\* its passes applied in their order, has no form feed character and no
\* line that consists only of digits.
C16_NoFormFeedNoBareNumber ==
  \A d \in Docs : \A text \in pageTexts(d) : freeOfArtifacts(cleanedText(rev, text))

\* a transcript of src/unnamed/part_000 with a page section that has a line
\* of digits only
C16_BareNumberInTranscript ==
  \E d \in Docs :
    /\ rev = "part_000"
    /\ phase[d] = "ok"
    /\ \E k \in DOMAIN transcriptOf(d).sections :
         ~freeOfArtifacts(transcriptOf(d).sections[k].text)

\* the word w occurs in the text
occurs(text, w) == \E k \in DOMAIN text : OccursAt(text, k, w)

\* line i ends in a hyphen after a word character and line i + 1 begins
\* with a word character: a word split at the line break
brokenWordAt(lines, i) ==
  /\ i < Len(lines)
  /\ Len(lines[i]) >= 2
  /\ lines[i][Len(lines[i])] = "-"
  /\ IsWordChar(lines[i][Len(lines[i]) - 1])
  /\ IsWordChar(lines[i + 1][1])

\* the last word of a line that ends in a hyphen, without the hyphen
wordBefore(line) ==
  SubSeq(line,
         CHOOSE j \in 1..(Len(line) - 1) :
           /\ \A k \in j..(Len(line) - 1) : IsWordChar(line[k])
           /\ (j = 1 \/ ~IsWordChar(line[j - 1])),
         Len(line) - 1)

\* the first word of a line
wordAfter(line) == SubSeq(line, 1, runEnd(line, 1, IsWordChar) - 1)

\* C17: a word that the raw page text splits by a hyphen at a line break is
\* rejoined in the output of the pipeline for the page, also when the
\* reconstruction has merged the two lines before the cleanup runs.
C17_HyphenatedWordRejoined ==
  \A d \in Docs : \A text \in pageTexts(d) : \A i \in DOMAIN analyzerLines(text) :
    brokenWordAt(analyzerLines(text), i) =>
      occurs(toLowerCase(cleanedText(rev, text)),
             toLowerCase(wordBefore(analyzerLines(text)[i])
                         \o wordAfter(analyzerLines(text)[i + 1])))

\* a transcript with a page section that reads "exam- ple", the two halves
\* of the word on one line with the hyphen between them
C17_HyphenLeftInTranscript ==
  \E d \in Docs :
    /\ phase[d] = "ok"
    /\ \E i \in DOMAIN analyzerLines(pages[d][1].text) :
         brokenWordAt(analyzerLines(pages[d][1].text), i)
    /\ \E k \in DOMAIN transcriptOf(d).sections :
         occurs(transcriptOf(d).sections[k].text, EXAM_HYPHEN \o << " ", "p", "l", "e" >>)

\* the line ends in sentence punctuation
endsSentence(line) == line # << >> /\ line[Len(line)] \in {".", "!", "?"}

\* in the grouping g of the lines no line that ends a sentence has the line
\* after it in its group
sentencesStayApart(lines, g) ==
  /\ g # NoGrouping
  /\ \A k \in DOMAIN g : \A i \in g[k].from..(g[k].to - 1) : ~endsSentence(lines[i])

\* C18: the reconstruction is idempotent on sentence-terminated lines: when
\* the rendered output of the reconstruction of a page is split into lines
\* and reconstructed again, no line that ends in ".", "!" or "?" gets the
\* line after it merged onto it.
C18_SecondPassKeepsSentences ==
  \A d \in Docs : \A text \in pageTexts(d) :
    sentencesStayApart(analyzerLines(reconstruct(rev, text)),
                       grouping(rev, reconstruct(rev, text)))

\* the page "It ends." / "12" in src/index.js: the first pass renders it in
\* two lines, the second pass in one
C18_HeaderMergedBySecondPass ==
  \E d \in Docs :
    /\ rev = "index.js"
    /\ pageTexts(d) = { join(<< IT_ENDS, TWELVE >>, << "\n" >>) }
    /\ Len(renderedLines(reconstruct(rev, join(<< IT_ENDS, TWELVE >>, << "\n" >>)))) = 2
    /\ Len(renderedLines(reconstruct(rev,
             reconstruct(rev, join(<< IT_ENDS, TWELVE >>, << "\n" >>))))) = 1

\* lines[i] and the line before it are plain lines: neither is a header or
\* a list item, so lines[i] meets the open paragraph that lines[i - 1] is in
plainAfterPlain(r, lines, i) ==
  i > 1 /\ kindAt(r, lines, i) = "plain" /\ kindAt(r, lines, i - 1) = "plain"

\* in the grouping g, lines[i] is merged with the line before it
mergedBack(g, i) == g # NoGrouping /\ g[groupOf(g, i)].from < i

\* C19: a plain line that starts with a lowercase letter and follows a plain
\* line in the open paragraph block is always merged into that line,
\* whatever that line's length and ending punctuation.
C19_LowercaseLineMerged ==
  \A d \in Docs : \A text \in pageTexts(d) : \A i \in DOMAIN analyzerLines(text) :
    (plainAfterPlain(rev, analyzerLines(text), i) /\ IsLower(analyzerLines(text)[i][1]))
      => mergedBack(grouping(rev, text), i)

\* the page of the three long sentences in src/index.js: the third, which
\* starts in lower case, is a line of its own in the paragraph block
C19_LowercaseLineApart ==
  \E d \in Docs :
    /\ rev = "index.js"
    /\ pageTexts(d) = { join(<< LONG_A, LONG_B, SECTION_LINE >>, << "\n" >>) }
    /\ plainAfterPlain(rev, << LONG_A, LONG_B, SECTION_LINE >>, 3)
    /\ assembleBlocks(<< LONG_A, LONG_B, SECTION_LINE >>)
         = << [type |-> "paragraph", level |-> 0,
               lines |-> << LONG_A \o << " " >> \o LONG_B, SECTION_LINE >>] >>

\* the line ends in terminal punctuation, as the revision reads it:
\* [.!?;] in src/index.js, [.!?;:] in part_000
endsTerminal(r, line) ==
  IF r = "index.js" THEN endsWithPunctuation(line)
  ELSE line # << >> /\ line[Len(line)] \in {".", "!", "?", ";", ":"}

\* C20: a plain line that follows a plain line not ending in terminal
\* punctuation is always merged with it into the same paragraph, whatever
\* the length of the line before relative to the median and whatever the
\* first character of the line.
C20_UnterminatedLineMerged ==
  \A d \in Docs : \A text \in pageTexts(d) : \A i \in DOMAIN analyzerLines(text) :
    (plainAfterPlain(rev, analyzerLines(text), i)
       /\ ~endsTerminal(rev, analyzerLines(text)[i - 1]))
      => mergedBack(grouping(rev, text), i)

\* the page "Ab" / "This is a sentence that" / "This is a sentence that" in
\* src/unnamed/part_000: the short first line is a block of its own
C20_ShortLineLeftAlone ==
  \E d \in Docs :
    /\ rev = "part_000"
    /\ pageTexts(d) = { join(<< SHORT_LINE, SENTENCE_START, SENTENCE_START >>, << "\n" >>) }
    /\ plainAfterPlain(rev, << SHORT_LINE, SENTENCE_START, SENTENCE_START >>, 2)
    /\ contentBlocks(<< SHORT_LINE, SENTENCE_START, SENTENCE_START >>)
         = << SHORT_LINE, SENTENCE_START \o << " " >> \o SENTENCE_START >>

\* src/index.js: blocks and currentBlock after the first n iterations of
\* the loop over the lines
RECURSIVE passUpTo(_, _)
passUpTo(lines, n) ==
  IF n = 0 THEN [blocks |-> << >>, currentBlock |-> newBlock("paragraph")]
  ELSE passStep(lines, n - 1, passUpTo(lines, n - 1))

\* part_000: blocks and currentParagraph after the first n iterations
RECURSIVE contentUpTo(_, _)
contentUpTo(lines, n) ==
  IF n = 0 THEN [blocks |-> << >>, currentParagraph |-> << >>]
  ELSE contentStep(lines, n - 1, contentUpTo(lines, n - 1))

\* the block list of revision r after n iterations, and the one rendered
blocksAfter(r, lines, n) ==
  IF r = "index.js" THEN passUpTo(lines, n).blocks ELSE contentUpTo(lines, n).blocks
blocksRendered(r, lines) ==
  IF r = "index.js" THEN assembleBlocks(lines) ELSE contentBlocks(lines)

\* what a block holds: its lines in src/index.js, its text in part_000
holdsNothing(r, block) ==
  IF r = "index.js" THEN Len(block.lines) = 0 \/ \E k \in DOMAIN block.lines : Len(block.lines[k]) = 0
  ELSE Len(block) = 0

\* C21: no block is empty: after every iteration of the reconstruction loop
\* and at render time, each block of the block list holds at least one
\* line, whatever the sequence of header, list and plain lines of the page
\* (a header right after a header or a list item, a page of whitespace).
C21_NoEmptyBlock ==
  \A d \in Docs : \A text \in pageTexts(d) :
    /\ \A n \in 0..Len(analyzerLines(text)) :
         \A k \in DOMAIN blocksAfter(rev, analyzerLines(text), n) :
           ~holdsNothing(rev, blocksAfter(rev, analyzerLines(text), n)[k])
    /\ \A k \in DOMAIN blocksRendered(rev, analyzerLines(text)) :
         ~holdsNothing(rev, blocksRendered(rev, analyzerLines(text))[k])

\* a page of two lines, the second a header right after a header or a list
\* item, has been reconstructed to two blocks
C21_HeaderAfterHeaderOrList ==
  \E d \in Docs : \E text \in pageTexts(d) :
    /\ Len(analyzerLines(text)) = 2
    /\ kindAt(rev, analyzerLines(text), 1) \in {"header", "list"}
    /\ kindAt(rev, analyzerLines(text), 2) = "header"
    /\ Len(blocksRendered(rev, analyzerLines(text))) = 2
    /\ phase[d] \in Settled

\* the names of the files that the call for document d has written: the
\* transcript when it ended in the try block, the error artifact when it
\* ended in the catch block
namesWritten(d) ==
  IF phase[d] = "ok" THEN { txtName(rev, items[d]) }
  ELSE IF phase[d] = "err" THEN { errName(rev, items[d]) }
  ELSE {}

\* C22: two distinct documents of a batch never write to the same output
\* file name: their base names differ, and neither the transcript nor the
\* error artifact of one is written under a name the other has written to.
C22_DistinctOutputNames ==
  \A d1, d2 \in Docs :
    (d1 # d2 /\ namesWritten(d1) # {} /\ namesWritten(d2) # {}) =>
      /\ baseOf(rev, items[d1]) # baseOf(rev, items[d2])
      /\ namesWritten(d1) \cap namesWritten(d2) = {}

\* two documents of distinct names have both written their transcript, and
\* the output directory holds one file
C22_TranscriptOverwritten ==
  \E d1, d2 \in Docs :
    /\ items[d1] # items[d2]
    /\ phase[d1] = "ok" /\ phase[d2] = "ok"
    /\ baseOf(rev, items[d1]) = baseOf(rev, items[d2])
    /\ Cardinality(DOMAIN files) = 1

\* C23: when the local extractor returns zero pages for a document, the
\* local result counts as not usable and the OCR backend is invoked: the
\* step in which processSinglePDF receives an empty page list and goes on in
\* its try block ends with the OCR request under way, never with a
\* transcript.  (A step that ends in the catch block is one in which the
\* extractor threw: it returned no page list at all.)
C23_ZeroPagesInvokeOcr ==
  [][ \A d \in Docs :
        (phase[d] = "local" /\ phase'[d] \in {"submit", "ok"} /\ pages'[d] = << >>)
          => (~usableOf(rev, pages'[d]) /\ ocrInvoked(d)') ]_vars

\* the OCR request of a document is under way after its local extractor
\* returned zero pages
C23_OcrAskedForNoPages ==
  \E d \in Docs : phase[d] = "submit" /\ pages[d] = << >>

\* the batch when every callback that is ready is run and every request to
\* the parser and the OCR backend is answered: the event loop of Node.js
\* runs each settled await's continuation, and the processing of every
\* document is taken to terminate
SpecLive == Spec /\ WF_vars(Next)

\* under SpecLive the promise of runQueue is settled in the end
RunQueueSettles == <>(rq # "pending")

\* C24: runQueue completes only after the queue is empty and every document
\* of the input set has reached its outcome: whenever its promise is
\* settled, no document is queued and none is still being processed.
C24_CompletesAfterAllOutcomes ==
  rq # "pending" => (queue = << >> /\ \A d \in Docs : phase[d] \in Settled)

\* the promise of runQueue is settled while the call for a document is
\* under way and another document is still in the queue
C24_SettledWhileProcessing ==
  /\ rq # "pending"
  /\ InProcess # {}
  /\ queue # << >>

====
